---------------------------- MODULE Spec2Model ----------------------------
(***************************************************************************)
(* Model of the Coffin-Reborn firmware core:                               *)
(*   - the NeoPixel frame buffers and their encoders (neopixel.c, SPI and  *)
(*     TCC variants),                                                      *)
(*   - the blocking DMA send of a frame (neopixel_send_data and            *)
(*     neopixel_send_tcc) with the DMA completion callback,                *)
(*   - the D-SUN proximity sensor debouncer (dsun_sensor.c).               *)
(* C arrays are functions over 0 .. size-1, uint8_t values are 0 .. 255.   *)
(***************************************************************************)
EXTENDS Integers, Sequences, FiniteSets, TLC

(***************************************************************************)
(* Program constants                                                       *)
(***************************************************************************)
\* neopixel.h: #define ZERO_LED 0xE0
ZERO_LED == 224
\* neopixel.h: #define ONE_LED 0xFC
ONE_LED == 252
\* neopixel.c: #define TCC_ZERO_BIT 36
TCC_ZERO_BIT == 36
\* neopixel.c: #define TCC_ONE_BIT 72
TCC_ONE_BIT == 72
\* neopixel.h: #define NEOPIXEL_LEADING_ZEROS 96
NEOPIXEL_LEADING_ZEROS == 96
\* symbols per LED: the literal 24 of set_led_color / set_led_color_tcc
SYMBOLS_PER_LED == 24
\* dsun_sensor.h: #define DSUN_DEBOUNCE_MS 50
DSUN_DEBOUNCE_MS == 50

(***************************************************************************)
(* Bounds of the model                                                     *)
(***************************************************************************)
\* neopixel.h has NUM_LEDS 144 (and the TCC code the literal 144); the
\* model runs a shorter strip.
NUM_LEDS == 2
\* get_system_time_ms returns time_counter / 1000; the model divides by
\* CALLS_PER_MS so that the debounce window is reached within MaxPolls polls.
CALLS_PER_MS == 2
\* polls of the sensor in one behaviour
MaxPolls == 210
\* symbol periods the timer may still run through between the end of the
\* DMA transfer and TCC0_PWMStop
MaxTail == 2
\* depth of the call stack: 1 is the main loop alone, 2 adds one
\* interrupting caller
MaxDepth == 2
\* width in bits of time_counter, last_change_time and current_time,
\* uint32_t in dsun_sensor.c; the model's counter is narrower, as its
\* milliseconds are shorter, so that a behaviour can run across the wrap
TimeCounterBits == 9
\* polls after the wrap of time_counter in a behaviour that crosses it
WrapTail == 10

\* neopixel.h: NEOPIXEL_BUFFER_SIZE ((24 * NUM_LEDS) + NEOPIXEL_LEADING_ZEROS)
NEOPIXEL_BUFFER_SIZE == (SYMBOLS_PER_LED * NUM_LEDS) + NEOPIXEL_LEADING_ZEROS
\* neopixel.c: uint8_t neopixel_tcc_buffer[144 * 24]
NEOPIXEL_TCC_BUFFER_SIZE == NUM_LEDS * SYMBOLS_PER_LED

\* uint8_t led_index values the callers are modelled to pass: every valid
\* index, the first two invalid ones and the largest uint8_t.
LedIndexInputs == (0 .. NUM_LEDS + 1) \cup {255}

\* (red, green, blue) triples the callers are modelled to pass.
ColorInputs ==
    { <<0, 0, 0>>, <<255, 0, 0>>, <<0, 255, 0>>, <<0, 0, 255>>,
      <<165, 90, 1>>, <<128, 127, 254>> }

VARIABLES
    build,                 \* which neopixel.c is linked: "spi" or "tcc"
    neopixel_buffer,       \* uint8_t neopixel_buffer[NEOPIXEL_BUFFER_SIZE]
    neopixel_tcc_buffer,   \* uint8_t neopixel_tcc_buffer[144 * 24]
    call,                  \* the last public operation called, with its arguments
    stack,                 \* call frames of the CPU, the running one last
    dma_complete,          \* volatile bool dma_complete (SPI variant)
    neopixel_dma_complete, \* volatile bool neopixel_dma_complete (TCC variant)
    dma_callback,          \* callback registered on DMAC_CHANNEL_0
    dma_busy,              \* DMAC channel 0 is armed and has beats left
    dma_idx,               \* beats of the armed transfer already done
    dma_event,             \* transfer event whose interrupt is pending
    tcc_running,           \* TCC0 counter runs (between PWMStart and PWMStop)
    tcc_cc,                \* TCC0 CC[0], the compare value in force
    tcc_ccbuf,             \* TCC0 CCBUF[0], the buffered compare value
    tcc_ccbufv,            \* CCBUF[0] holds a value not yet loaded into CC[0]
    line,                  \* symbols put on the output line since send was entered
    complete_isr_ran,      \* the callback saw COMPLETE since the channel was last armed
    error_isr_ran,         \* the callback saw an error event since the channel was last armed
    current_state,         \* static dsun_state_t current_state
    previous_state,        \* static dsun_state_t previous_state
    last_change_time,      \* static uint32_t last_change_time
    sensor_initialized,    \* static bool sensor_initialized
    time_counter,          \* static uint32_t time_counter of get_system_time_ms
    pin,                   \* level of the sensor pin, PORT_PinRead(DSUN_SENSOR_PIN)
    raw_stable_ms,         \* real milliseconds since the pin last changed (saturating)
    rising_from_no_object, \* the pin's last change was false -> true in state NoObject
    stable_polls,          \* polls made since init or the pin's last change, counted
    agree_polls,           \* polls made since the last poll that read the value of current_state, counted
                           \* (up to SettlePolls) in the behaviours of SpecSteady only
    accept_age,            \* time on the debouncer's clock since the last accepted transition
                           \* (since time 0 before the first), saturating at DSUN_DEBOUNCE_MS
    query                  \* the last sensor query, its result, whether it changed the state

bufVars == <<neopixel_buffer, neopixel_tcc_buffer>>

cpuVars == <<stack, dma_complete, neopixel_dma_complete, dma_callback>>

hwVars ==
    <<dma_busy, dma_idx, dma_event, tcc_running, tcc_cc, tcc_ccbuf,
      tcc_ccbufv, line, complete_isr_ran, error_isr_ran>>

ledVars == <<build, neopixel_buffer, neopixel_tcc_buffer, call, cpuVars, hwVars>>

sensorVars ==
    <<current_state, previous_state, last_change_time, sensor_initialized,
      time_counter, pin, raw_stable_ms, rising_from_no_object,
      accept_age, stable_polls, agree_polls, query>>

vars == <<ledVars, sensorVars>>

NoCall == [op |-> "none", led_index |-> 0, red |-> 0, green |-> 0, blue |-> 0]

Called(op, i, r, g, b) ==
    [op |-> op, led_index |-> i, red |-> r, green |-> g, blue |-> b]

(***************************************************************************)
(* ColorEncoder / FrameBuffer, SPI variant                                 *)
(***************************************************************************)
\* (value & (1 << bit)) != 0
BitSet(value, bit) == (value \div (2 ^ bit)) % 2 = 1

SpiSymbol_swapped(value, bit) == IF BitSet(value, bit) THEN ZERO_LED ELSE ONE_LED

\* (color & (1 << bit)) ? ONE_LED : ZERO_LED
SpiSymbol(value, bit) == IF BitSet(value, bit) THEN ONE_LED ELSE ZERO_LED

\* for(int bit = 7; bit >= 0; bit--) led_buffer[off + (7-bit)] = symbol
RECURSIVE spi_write_channel(_, _, _, _)
spi_write_channel(buf, base, value, bit) ==
    IF bit < 0 THEN buf
    ELSE spi_write_channel(
             [buf EXCEPT ![base + (7 - bit)] = SpiSymbol(value, bit)],
             base, value, bit - 1)

spi_index_rejected_off_by_one(led_index) == led_index > NUM_LEDS

\* if(led_index >= NUM_LEDS) return;
spi_index_rejected(led_index) == led_index >= NUM_LEDS

set_led_color_blue_one_led_on(buf, led_index, red, green, blue) ==
    IF spi_index_rejected(led_index) THEN buf
    ELSE LET led_buffer == led_index * 24
             g == spi_write_channel(buf, led_buffer, green, 7)
             r == spi_write_channel(g, led_buffer + 8, red, 7)
         IN  spi_write_channel(r, led_buffer + 24, blue, 7)

set_led_color(buf, led_index, red, green, blue) ==
    IF spi_index_rejected(led_index) THEN buf
    ELSE LET led_buffer == led_index * 24
             g == spi_write_channel(buf, led_buffer, green, 7)
             r == spi_write_channel(g, led_buffer + 8, red, 7)
         IN  spi_write_channel(r, led_buffer + 16, blue, 7)

\* for(int i = 0; i < NUM_LEDS; i++) set_led_color(i, 0, 0, 0);
RECURSIVE clear_loop(_, _)
clear_loop(buf, i) ==
    IF i < NUM_LEDS
    THEN clear_loop(set_led_color(buf, i % 256, 0, 0, 0), i + 1)
    ELSE buf

clear_all_leds_from_second(buf) == clear_loop(buf, 1)

clear_all_leds(buf) == clear_loop(buf, 0)

(***************************************************************************)
(* ColorEncoder / FrameBuffer, TCC variant                                 *)
(***************************************************************************)
\* (color & (1 << i)) ? TCC_ONE_BIT : TCC_ZERO_BIT
TccSymbol(value, bit) == IF BitSet(value, bit) THEN TCC_ONE_BIT ELSE TCC_ZERO_BIT

\* for(int i = 7; i >= 0; i--) neopixel_tcc_buffer[bit_offset++] = symbol
\* bit_offset is a uint16_t
RECURSIVE tcc_write_channel(_, _, _, _)
tcc_write_channel(buf, bit_offset, value, i) ==
    IF i < 0 THEN buf
    ELSE tcc_write_channel(
             [buf EXCEPT ![bit_offset] = TccSymbol(value, i)],
             (bit_offset + 1) % 65536, value, i - 1)

tcc_index_rejected_never(led_index) == FALSE

\* if(led_index >= 144) return;   (144 is the strip length, NUM_LEDS here)
tcc_index_rejected(led_index) == led_index >= NUM_LEDS

set_led_color_tcc_rgb_order(buf, led_index, red, green, blue) ==
    IF tcc_index_rejected(led_index) THEN buf
    ELSE LET bit_offset == (led_index * 24) % 65536
             r == tcc_write_channel(buf, bit_offset, red, 7)
             g == tcc_write_channel(r, (bit_offset + 8) % 65536, green, 7)
         IN  tcc_write_channel(g, (bit_offset + 16) % 65536, blue, 7)

set_led_color_tcc(buf, led_index, red, green, blue) ==
    IF tcc_index_rejected(led_index) THEN buf
    ELSE LET bit_offset == (led_index * 24) % 65536
             g == tcc_write_channel(buf, bit_offset, green, 7)
             r == tcc_write_channel(g, (bit_offset + 8) % 65536, red, 7)
         IN  tcc_write_channel(r, (bit_offset + 16) % 65536, blue, 7)

\* C zero-initialises the global buffers.
InitBuffers ==
    /\ neopixel_buffer = [p \in 0 .. NEOPIXEL_BUFFER_SIZE - 1 |-> 0]
    /\ neopixel_tcc_buffer = [p \in 0 .. NEOPIXEL_TCC_BUFFER_SIZE - 1 |-> 0]

(***************************************************************************)
(* The CPU: call frames, and the statics and registers at reset            *)
(***************************************************************************)
\* A frame is the statement its function executes next, and what the send
\* it runs has done so far.
Frame(label) == [pc |-> label, cleared |-> FALSE, armed |-> FALSE, gap |-> FALSE]

Top == stack[Len(stack)]

pc == Top.pc

AtIdle == Len(stack) = 1 /\ pc = "idle"

SetTop(f) == stack' = [stack EXCEPT ![Len(stack)] = f]

Goto(label) == SetTop([Top EXCEPT !.pc = label])

\* The running function returns: an interrupting caller's frame is
\* dropped, the main loop is back between two calls.
Return(f) ==
    IF Len(stack) > 1
    THEN stack' = SubSeq(stack, 1, Len(stack) - 1)
    ELSE SetTop([f EXCEPT !.pc = "idle"])

\* volatile bool dma_complete = false; volatile bool neopixel_dma_complete
\* = false; the peripherals after reset
InitDriver(label) ==
    /\ stack = <<Frame(label)>>
    /\ dma_complete = FALSE
    /\ neopixel_dma_complete = FALSE
    /\ dma_callback = "none"
    /\ dma_busy = FALSE
    /\ dma_idx = 0
    /\ dma_event = "none"
    /\ tcc_running = FALSE
    /\ tcc_cc = 0
    /\ tcc_ccbuf = 0
    /\ tcc_ccbufv = FALSE
    /\ line = <<>>
    /\ complete_isr_ran = FALSE
    /\ error_isr_ran = FALSE

(***************************************************************************)
(* ProximityDebouncer (dsun_sensor.c)                                      *)
(***************************************************************************)
NoQuery == [op |-> "none", ret |-> FALSE, changed |-> FALSE]

\* static initialisers of dsun_sensor.c; the environment's variables at rest
InitSensorStatics ==
    /\ current_state = "DSUN_STATE_UNKNOWN"
    /\ previous_state = "DSUN_STATE_UNKNOWN"
    /\ last_change_time = 0
    /\ sensor_initialized = FALSE
    /\ time_counter = 0
    /\ raw_stable_ms = 0
    /\ rising_from_no_object = FALSE
    /\ accept_age = 0
    /\ stable_polls = 0
    /\ agree_polls = 0
    /\ query = NoQuery

\* the number of values of the unsigned type of the counter and the times
TimeCounterWrap == 2 ^ TimeCounterBits

\* time_counter++ of get_system_time_ms, in the unsigned type
next_time_counter(counter) == (counter + 1) % TimeCounterWrap

get_system_time_ms_stuck(counter) == 0

\* return time_counter / 1000;
get_system_time_ms(counter) == counter \div CALLS_PER_MS

\* a - b in the unsigned type: a difference below zero wraps
unsigned_difference(a, b) == (a - b + TimeCounterWrap) % TimeCounterWrap

debounce_elapsed_one_early(current_time, last) ==
    unsigned_difference(current_time, last) >= DSUN_DEBOUNCE_MS - 1

\* current_time - last_change_time >= DSUN_DEBOUNCE_MS
debounce_elapsed(current_time, last) ==
    unsigned_difference(current_time, last) >= DSUN_DEBOUNCE_MS

\* raw_reading ? DSUN_OBJECT_DETECTED : DSUN_NO_OBJECT
new_state_of(raw_reading) ==
    IF raw_reading THEN "DSUN_OBJECT_DETECTED" ELSE "DSUN_NO_OBJECT"

debounce_poll_previous_overwritten(cur, prev, last, counter, raw_reading) ==
    LET new_state == new_state_of(raw_reading)
        counter2 == next_time_counter(counter)
        current_time == get_system_time_ms(counter2)
    IN  IF new_state # cur
        THEN IF debounce_elapsed(current_time, last)
             THEN [ret |-> new_state, current_state |-> new_state,
                   previous_state |-> new_state,
                   last_change_time |-> current_time,
                   time_counter |-> counter2]
             ELSE [ret |-> cur, current_state |-> cur,
                   previous_state |-> prev, last_change_time |-> last,
                   time_counter |-> counter2]
        ELSE [ret |-> cur, current_state |-> cur,
              previous_state |-> prev,
              last_change_time |-> current_time,
              time_counter |-> counter2]

debounce_poll_no_refresh(cur, prev, last, counter, raw_reading) ==
    LET new_state == new_state_of(raw_reading)
        counter2 == next_time_counter(counter)
        current_time == get_system_time_ms(counter2)
    IN  IF new_state # cur /\ debounce_elapsed(current_time, last)
        THEN [ret |-> new_state, current_state |-> new_state,
              previous_state |-> cur, last_change_time |-> current_time,
              time_counter |-> counter2]
        ELSE [ret |-> cur, current_state |-> cur,
              previous_state |-> prev, last_change_time |-> last,
              time_counter |-> counter2]

\* The body of dsun_get_state below its early return: the statics after
\* the poll that reads raw_reading, and the value it returns.
debounce_poll(cur, prev, last, counter, raw_reading) ==
    LET new_state == new_state_of(raw_reading)
        counter2 == next_time_counter(counter)
        current_time == get_system_time_ms(counter2)
    IN  IF new_state # cur
        THEN IF debounce_elapsed(current_time, last)
             THEN [ret |-> new_state, current_state |-> new_state,
                   previous_state |-> cur,
                   last_change_time |-> current_time,
                   time_counter |-> counter2]
             ELSE [ret |-> cur, current_state |-> cur,
                   previous_state |-> prev, last_change_time |-> last,
                   time_counter |-> counter2]
        ELSE [ret |-> cur, current_state |-> cur,
              previous_state |-> prev,
              last_change_time |-> current_time,
              time_counter |-> counter2]

dsun_get_state_unguarded(cur, prev, last, initialized, counter, raw_reading) ==
    debounce_poll(cur, prev, last, counter, raw_reading)

\* The statics after one call of dsun_get_state that reads raw_reading,
\* and the value it returns.
\* if (!sensor_initialized) { return DSUN_STATE_UNKNOWN; }
dsun_get_state(cur, prev, last, initialized, counter, raw_reading) ==
    IF ~initialized
    THEN [ret |-> "DSUN_STATE_UNKNOWN", current_state |-> cur,
          previous_state |-> prev, last_change_time |-> last,
          time_counter |-> counter]
    ELSE debounce_poll(cur, prev, last, counter, raw_reading)

\* dsun_get_state() == DSUN_OBJECT_DETECTED
detected_result(r) == r.ret = "DSUN_OBJECT_DETECTED"

rising_edge_from_any_state(r) ==
    r.previous_state # "DSUN_OBJECT_DETECTED" /\ r.ret = "DSUN_OBJECT_DETECTED"

\* (previous_state == DSUN_NO_OBJECT) && (current == DSUN_OBJECT_DETECTED)
rising_edge(r) ==
    r.previous_state = "DSUN_NO_OBJECT" /\ r.ret = "DSUN_OBJECT_DETECTED"

\* (previous_state == DSUN_OBJECT_DETECTED) && (current == DSUN_NO_OBJECT)
falling_edge(r) ==
    r.previous_state = "DSUN_OBJECT_DETECTED" /\ r.ret = "DSUN_NO_OBJECT"

Min(a, b) == IF a < b THEN a ELSE b

\* the clock time between the poll before (at counter) and this poll; a
\* counter that is lower than before has wrapped once
clock_advance(r, counter) ==
    IF r.time_counter >= counter
    THEN get_system_time_ms(r.time_counter) - get_system_time_ms(counter)
    ELSE get_system_time_ms(r.time_counter + TimeCounterWrap)
             - get_system_time_ms(counter)

\* the age of the last accepted transition when this poll is made
accept_age_at_poll(r, counter, age) ==
    Min(age + clock_advance(r, counter), DSUN_DEBOUNCE_MS)

\* the age after the poll: 0 when the poll accepted a transition
accept_age_after(r, cur, counter, age) ==
    IF r.current_state # cur THEN 0 ELSE accept_age_at_poll(r, counter, age)

\* One poll: the statics move as dsun_get_state moves them.
PollStatics(r) ==
    /\ current_state' = r.current_state
    /\ previous_state' = r.previous_state
    /\ last_change_time' = r.last_change_time
    /\ time_counter' = r.time_counter
    /\ accept_age' = accept_age_after(r, current_state, time_counter, accept_age)
    /\ UNCHANGED <<sensor_initialized, pin, raw_stable_ms,
                   rising_from_no_object, ledVars>>

PollStep(r) == PollStatics(r) /\ UNCHANGED <<stable_polls, agree_polls>>

PollNow ==
    dsun_get_state(current_state, previous_state, last_change_time,
                   sensor_initialized, time_counter, pin)

Polled(op, ret, r) ==
    [op |-> op, ret |-> ret, changed |-> r.current_state # current_state]

\* void dsun_sensor_init(void): resets the statics and polls once
InitAndPoll ==
    /\ ~sensor_initialized
    /\ LET r == dsun_get_state("DSUN_STATE_UNKNOWN", "DSUN_STATE_UNKNOWN",
                                0, TRUE, time_counter, pin)
       IN  /\ current_state' = r.current_state
           /\ previous_state' = r.previous_state
           /\ last_change_time' = r.last_change_time
           /\ time_counter' = r.time_counter
           /\ accept_age' = accept_age_after(r, "DSUN_STATE_UNKNOWN", 0,
                                              get_system_time_ms(time_counter))
           /\ query' = Polled("dsun_sensor_init", FALSE, r)
    /\ sensor_initialized' = TRUE
    /\ UNCHANGED <<pin, raw_stable_ms, rising_from_no_object, ledVars>>

Call_dsun_sensor_init == InitAndPoll /\ UNCHANGED <<stable_polls, agree_polls>>

Call_dsun_get_state ==
    /\ time_counter < MaxPolls
    /\ LET r == PollNow
       IN  /\ PollStep(r)
           /\ query' = Polled("dsun_get_state", r.ret # "DSUN_NO_OBJECT", r)

Call_dsun_object_detected ==
    /\ time_counter < MaxPolls
    /\ LET r == PollNow
       IN  /\ PollStep(r)
           /\ query' = Polled("dsun_object_detected", detected_result(r), r)

Call_dsun_object_just_detected ==
    /\ time_counter < MaxPolls
    /\ LET r == PollNow
       IN  /\ PollStep(r)
           /\ query' = Polled("dsun_object_just_detected", rising_edge(r), r)

Call_dsun_object_just_lost ==
    /\ time_counter < MaxPolls
    /\ LET r == PollNow
       IN  /\ PollStep(r)
           /\ query' = Polled("dsun_object_just_lost", falling_edge(r), r)

\* The environment: the sensor output changes level.
PinChange ==
    /\ pin' = ~pin
    /\ raw_stable_ms' = 0
    /\ rising_from_no_object' = (~pin /\ current_state = "DSUN_NO_OBJECT")
    /\ stable_polls' = 0
    /\ query' = NoQuery
    /\ UNCHANGED <<current_state, previous_state, last_change_time,
                   sensor_initialized, time_counter, accept_age,
                   agree_polls, ledVars>>

\* The environment: dt milliseconds of real time pass between two calls.
ElapseInputs == {10, DSUN_DEBOUNCE_MS}

Elapse(dt) ==
    /\ raw_stable_ms < DSUN_DEBOUNCE_MS
    /\ raw_stable_ms' = Min(raw_stable_ms + dt, DSUN_DEBOUNCE_MS)
    /\ query' = NoQuery
    /\ UNCHANGED <<current_state, previous_state, last_change_time,
                   sensor_initialized, time_counter, pin,
                   rising_from_no_object, accept_age, stable_polls,
                   agree_polls, ledVars>>

InitSensor ==
    /\ build = "spi"
    /\ InitBuffers
    /\ call = NoCall
    /\ InitDriver("idle")
    /\ InitSensorStatics
    /\ pin \in BOOLEAN

NextSensor ==
    \/ Call_dsun_sensor_init
    \/ Call_dsun_get_state
    \/ Call_dsun_object_detected
    \/ Call_dsun_object_just_detected
    \/ Call_dsun_object_just_lost
    \/ PinChange
    \/ \E dt \in ElapseInputs : Elapse(dt)

\* The debouncer polled at arbitrary moments against an arbitrary input.
SpecSensor == InitSensor /\ [][NextSensor]_vars

\* polls after which a constant input is certainly old enough on the
\* debouncer's clock: DSUN_DEBOUNCE_MS, and one more tick because the
\* last-change timestamp may have been taken within the current tick
SettlePolls == (DSUN_DEBOUNCE_MS + 1) * CALLS_PER_MS

count_poll(n) == Min(n + 1, SettlePolls)

\* dsun_sensor_init, with its poll counted
Steady_dsun_sensor_init ==
    /\ InitAndPoll
    /\ stable_polls' = count_poll(0)
    /\ UNCHANGED agree_polls

\* dsun_get_state from the main loop, counted
Steady_dsun_get_state ==
    /\ sensor_initialized
    /\ time_counter < MaxPolls
    /\ LET r == PollNow
       IN  /\ PollStatics(r)
           /\ query' = Polled("dsun_get_state", r.ret # "DSUN_NO_OBJECT", r)
    /\ stable_polls' = count_poll(stable_polls)
    /\ UNCHANGED agree_polls

NextSteady ==
    \/ Steady_dsun_sensor_init
    \/ Steady_dsun_get_state
    \/ PinChange

\* The debouncer polled again and again while the input changes at
\* arbitrary moments, with the polls since the last change counted.
SpecSteady == InitSensor /\ [][NextSteady]_vars

(***************************************************************************)
(* The debouncer across the wrap of time_counter                           *)
(***************************************************************************)
\* polls before the wrap at which the behaviours start: enough for a
\* transition to be accepted before the counter wraps
WrapLead == (DSUN_DEBOUNCE_MS + 5) * CALLS_PER_MS

WrapStart == TimeCounterWrap - WrapLead

\* the counter is within the stretch around its wrap
NearWrap(counter) == counter >= WrapStart \/ counter < WrapTail

\* polls since the last poll that read the value of the debounced state
count_agree(r, n) ==
    IF new_state_of(pin) = r.current_state THEN 0 ELSE Min(n + 1, SettlePolls)

WrapPoll(op, r, ret) ==
    /\ PollStatics(r)
    /\ agree_polls' = count_agree(r, agree_polls)
    /\ query' = Polled(op, ret, r)
    /\ UNCHANGED stable_polls

Wrap_dsun_get_state ==
    /\ sensor_initialized
    /\ NearWrap(time_counter)
    /\ LET r == PollNow
       IN  WrapPoll("dsun_get_state", r, r.ret # "DSUN_NO_OBJECT")

Wrap_dsun_object_detected ==
    /\ sensor_initialized
    /\ NearWrap(time_counter)
    /\ LET r == PollNow
       IN  WrapPoll("dsun_object_detected", r, detected_result(r))

Wrap_dsun_object_just_detected ==
    /\ sensor_initialized
    /\ NearWrap(time_counter)
    /\ LET r == PollNow
       IN  WrapPoll("dsun_object_just_detected", r, rising_edge(r))

Wrap_dsun_object_just_lost ==
    /\ sensor_initialized
    /\ NearWrap(time_counter)
    /\ LET r == PollNow
       IN  WrapPoll("dsun_object_just_lost", r, falling_edge(r))

\* The sensor after dsun_sensor_init and WrapStart polls of an input that
\* never changed: the one transition from Unknown accepted long ago, and
\* the timestamp refreshed by the poll just made.
InitWrap ==
    /\ build = "spi"
    /\ InitBuffers
    /\ call = NoCall
    /\ InitDriver("idle")
    /\ pin \in BOOLEAN
    /\ sensor_initialized = TRUE
    /\ current_state = new_state_of(pin)
    /\ previous_state = "DSUN_STATE_UNKNOWN"
    /\ time_counter = WrapStart
    /\ last_change_time = get_system_time_ms(WrapStart)
    /\ raw_stable_ms = DSUN_DEBOUNCE_MS
    /\ rising_from_no_object = FALSE
    /\ accept_age = DSUN_DEBOUNCE_MS
    /\ stable_polls = 0
    /\ agree_polls = 0
    /\ query = NoQuery

NextWrap ==
    \/ Wrap_dsun_get_state
    \/ Wrap_dsun_object_detected
    \/ Wrap_dsun_object_just_detected
    \/ Wrap_dsun_object_just_lost
    \/ PinChange

\* The debouncer polled while time_counter runs up to its largest value and
\* starts again from 0.
SpecWrap == InitWrap /\ [][NextWrap]_vars

(***************************************************************************)
(* The frame-buffer operations as actions                                  *)
(***************************************************************************)
Call_set_led_color(i, c) ==
    /\ build = "spi"
    /\ AtIdle
    /\ neopixel_buffer' = set_led_color(neopixel_buffer, i, c[1], c[2], c[3])
    /\ call' = Called("set_led_color", i, c[1], c[2], c[3])
    /\ UNCHANGED <<build, neopixel_tcc_buffer, cpuVars, hwVars, sensorVars>>

Call_clear_all_leds ==
    /\ build = "spi"
    /\ AtIdle
    /\ neopixel_buffer' = clear_all_leds(neopixel_buffer)
    /\ call' = Called("clear_all_leds", 0, 0, 0, 0)
    /\ UNCHANGED <<build, neopixel_tcc_buffer, cpuVars, hwVars, sensorVars>>

Call_set_led_color_tcc(i, c) ==
    /\ build = "tcc"
    /\ AtIdle
    /\ neopixel_tcc_buffer' =
           set_led_color_tcc(neopixel_tcc_buffer, i, c[1], c[2], c[3])
    /\ call' = Called("set_led_color_tcc", i, c[1], c[2], c[3])
    /\ UNCHANGED <<build, neopixel_buffer, cpuVars, hwVars, sensorVars>>

(***************************************************************************)
(* neopixel_init, and the DMA completion callbacks                         *)
(***************************************************************************)
registered_callback_missing(b) == "none"

\* DMAC_ChannelCallbackRegister(DMAC_CHANNEL_0, <callback>, 0);
registered_callback(b) ==
    IF b = "spi" THEN "DMA_0_Callback" ELSE "NeoPixel_DMA_Callback"

Call_neopixel_init ==
    /\ Len(stack) = 1
    /\ pc \in {"boot", "idle"}
    /\ dma_callback' = registered_callback(build)
    /\ Goto("idle")
    /\ call' = Called("neopixel_init", 0, 0, 0, 0)
    /\ UNCHANGED <<build, bufVars, dma_complete, neopixel_dma_complete,
                   hwVars, sensorVars>>

callback_sets_flag_on_any_event(event) == TRUE

\* if(event == DMAC_TRANSFER_EVENT_COMPLETE) { <flag> = true; }
callback_sets_flag(event) == event = "COMPLETE"

\* The DMAC interrupt: the registered callback is called with the event.
DmaIsr ==
    /\ dma_event # "none"
    /\ dma_event' = "none"
    /\ dma_complete' =
           IF dma_callback = "DMA_0_Callback" /\ callback_sets_flag(dma_event)
           THEN TRUE ELSE dma_complete
    /\ neopixel_dma_complete' =
           IF dma_callback = "NeoPixel_DMA_Callback"
              /\ callback_sets_flag(dma_event)
           THEN TRUE ELSE neopixel_dma_complete
    /\ complete_isr_ran' =
           (complete_isr_ran \/ (dma_callback # "none" /\ dma_event = "COMPLETE"))
    /\ error_isr_ran' =
           (error_isr_ran \/ (dma_callback # "none" /\ dma_event = "ERROR"))
    /\ UNCHANGED <<build, bufVars, call, stack, dma_callback, dma_busy,
                   dma_idx, tcc_running, tcc_cc, tcc_ccbuf, tcc_ccbufv, line,
                   sensorVars>>

(***************************************************************************)
(* neopixel_send_tcc, statement by statement                               *)
(***************************************************************************)
wait_done_ignoring_flag(flag) == TRUE

\* while(!flag) ...: the loop is left when the flag reads true
wait_done(flag) == flag

flag_clear_skipped(flag) == flag

\* <flag> = false;
flag_cleared(flag) == FALSE

\* void neopixel_send_tcc(void) is entered from the main loop
Call_neopixel_send_tcc ==
    /\ build = "tcc"
    /\ AtIdle
    /\ SetTop(Frame("tcc_preload"))
    /\ call' = Called("neopixel_send_tcc", 0, 0, 0, 0)
    /\ line' = <<>>
    /\ UNCHANGED <<build, bufVars, dma_complete, neopixel_dma_complete,
                   dma_callback, dma_busy, dma_idx, dma_event, tcc_running,
                   tcc_cc, tcc_ccbuf, tcc_ccbufv, complete_isr_ran,
                   error_isr_ran, sensorVars>>

\* TCC0_REGS->TCC_CC[0] = neopixel_tcc_buffer[0];
Step_tcc_preload ==
    /\ pc = "tcc_preload"
    /\ tcc_cc' = neopixel_tcc_buffer[0]
    /\ Goto("tcc_clear_flag")
    /\ UNCHANGED <<build, bufVars, call, dma_complete, neopixel_dma_complete,
                   dma_callback, dma_busy, dma_idx, dma_event, tcc_running,
                   tcc_ccbuf, tcc_ccbufv, line, complete_isr_ran,
                   error_isr_ran, sensorVars>>

\* neopixel_dma_complete = false;
Step_tcc_clear_flag ==
    /\ pc = "tcc_clear_flag"
    /\ neopixel_dma_complete' = flag_cleared(neopixel_dma_complete)
    /\ SetTop([Top EXCEPT !.pc = "tcc_arm", !.cleared = TRUE])
    /\ UNCHANGED <<build, bufVars, call, dma_complete, dma_callback, hwVars,
                   sensorVars>>

\* DMAC_ChannelTransfer(DMAC_CHANNEL_0, neopixel_tcc_buffer,
\*                      &TCC0_REGS->TCC_CCBUF[0], 144 * 24);
Step_tcc_arm ==
    /\ pc = "tcc_arm"
    /\ dma_busy' = TRUE
    /\ dma_idx' = 0
    /\ complete_isr_ran' = FALSE
    /\ error_isr_ran' = FALSE
    /\ SetTop([Top EXCEPT !.pc = "tcc_start", !.armed = TRUE])
    /\ UNCHANGED <<build, bufVars, call, dma_complete, neopixel_dma_complete,
                   dma_callback, dma_event, tcc_running, tcc_cc, tcc_ccbuf,
                   tcc_ccbufv, line, sensorVars>>

\* TCC0_PWMStart();
Step_tcc_start ==
    /\ pc = "tcc_start"
    /\ tcc_running' = TRUE
    /\ Goto("tcc_wait")
    /\ UNCHANGED <<build, bufVars, call, dma_complete, neopixel_dma_complete,
                   dma_callback, dma_busy, dma_idx, dma_event, tcc_cc,
                   tcc_ccbuf, tcc_ccbufv, line, complete_isr_ran,
                   error_isr_ran, sensorVars>>

\* while(!neopixel_dma_complete){ TCC0_PWMForceUpdate(); }
\* One test of the flag; when it reads false, the forced update loads a
\* pending CCBUF[0] into CC[0] at once.
Step_tcc_wait ==
    /\ pc = "tcc_wait"
    /\ IF wait_done(neopixel_dma_complete)
       THEN /\ Goto("tcc_stop")
            /\ UNCHANGED <<tcc_cc, tcc_ccbufv>>
       ELSE /\ tcc_cc' = IF tcc_ccbufv THEN tcc_ccbuf ELSE tcc_cc
            /\ tcc_ccbufv' = FALSE
            /\ UNCHANGED stack
    /\ UNCHANGED <<build, bufVars, call, dma_complete, neopixel_dma_complete,
                   dma_callback, dma_busy, dma_idx, dma_event, tcc_running,
                   tcc_ccbuf, line, complete_isr_ran, error_isr_ran,
                   sensorVars>>

\* TCC0_PWMStop();
Step_tcc_stop ==
    /\ pc = "tcc_stop"
    /\ tcc_running' = FALSE
    /\ Goto("tcc_delay")
    /\ UNCHANGED <<build, bufVars, call, dma_complete, neopixel_dma_complete,
                   dma_callback, dma_busy, dma_idx, dma_event, tcc_cc,
                   tcc_ccbuf, tcc_ccbufv, line, complete_isr_ran,
                   error_isr_ran, sensorVars>>

\* SYSTICK_DelayUs(100); and the return
Step_tcc_delay ==
    /\ pc = "tcc_delay"
    /\ Return([Top EXCEPT !.gap = TRUE])
    /\ UNCHANGED <<build, bufVars, call, dma_complete, neopixel_dma_complete,
                   dma_callback, hwVars, sensorVars>>

(***************************************************************************)
(* neopixel_send_data, statement by statement                              *)
(***************************************************************************)
\* void neopixel_send_data(neopixel_buffer, sizeof(neopixel_buffer)) is
\* entered from the main loop
Call_neopixel_send_data ==
    /\ build = "spi"
    /\ AtIdle
    /\ SetTop(Frame("spi_clear_flag"))
    /\ call' = Called("neopixel_send_data", 0, 0, 0, 0)
    /\ line' = <<>>
    /\ UNCHANGED <<build, bufVars, dma_complete, neopixel_dma_complete,
                   dma_callback, dma_busy, dma_idx, dma_event, tcc_running,
                   tcc_cc, tcc_ccbuf, tcc_ccbufv, complete_isr_ran,
                   error_isr_ran, sensorVars>>

\* dma_complete = false;
Step_spi_clear_flag ==
    /\ pc = "spi_clear_flag"
    /\ dma_complete' = flag_cleared(dma_complete)
    /\ SetTop([Top EXCEPT !.pc = "spi_arm", !.cleared = TRUE])
    /\ UNCHANGED <<build, bufVars, call, neopixel_dma_complete, dma_callback,
                   hwVars, sensorVars>>

\* DMAC_ChannelTransfer(DMAC_CHANNEL_0, buffer,
\*                      &SERCOM1_REGS->SPIM.SERCOM_DATA, length);
Step_spi_arm ==
    /\ pc = "spi_arm"
    /\ dma_busy' = TRUE
    /\ dma_idx' = 0
    /\ complete_isr_ran' = FALSE
    /\ error_isr_ran' = FALSE
    /\ SetTop([Top EXCEPT !.pc = "spi_wait", !.armed = TRUE])
    /\ UNCHANGED <<build, bufVars, call, dma_complete, neopixel_dma_complete,
                   dma_callback, dma_event, tcc_running, tcc_cc, tcc_ccbuf,
                   tcc_ccbufv, line, sensorVars>>

\* while(!dma_complete);
Step_spi_wait ==
    /\ pc = "spi_wait"
    /\ wait_done(dma_complete)
    /\ Goto("spi_delay")
    /\ UNCHANGED <<build, bufVars, call, dma_complete, neopixel_dma_complete,
                   dma_callback, hwVars, sensorVars>>

\* delay_microseconds(100); and the return
Step_spi_delay ==
    /\ pc = "spi_delay"
    /\ Return([Top EXCEPT !.gap = TRUE])
    /\ UNCHANGED <<build, bufVars, call, dma_complete, neopixel_dma_complete,
                   dma_callback, hwVars, sensorVars>>

(***************************************************************************)
(* The peripherals the sends drive                                         *)
(***************************************************************************)
\* One beat of the armed transfer moved: the event of its last beat
dma_after_beat(idx, len) ==
    [busy |-> idx + 1 < len,
     event |-> IF idx + 1 < len THEN "none" ELSE "COMPLETE"]

\* The timer overflows ("DMA will feed data on each overflow"): the period
\* that ends put the compare value in force on the line, a pending CCBUF[0]
\* becomes CC[0], and the overflow triggers the next DMA beat into the
\* buffered register.
TccOverflow ==
    /\ build = "tcc"
    /\ tcc_running
    /\ Len(line) < NEOPIXEL_TCC_BUFFER_SIZE + MaxTail
    /\ line' = Append(line, tcc_cc)
    /\ tcc_cc' = IF tcc_ccbufv THEN tcc_ccbuf ELSE tcc_cc
    /\ IF dma_busy
       THEN LET after == dma_after_beat(dma_idx, NEOPIXEL_TCC_BUFFER_SIZE)
            IN  /\ tcc_ccbuf' = neopixel_tcc_buffer[dma_idx]
                /\ tcc_ccbufv' = TRUE
                /\ dma_idx' = dma_idx + 1
                /\ dma_busy' = after.busy
                /\ dma_event' = IF after.busy THEN dma_event ELSE after.event
       ELSE /\ tcc_ccbufv' = FALSE
            /\ UNCHANGED <<tcc_ccbuf, dma_idx, dma_busy, dma_event>>
    /\ UNCHANGED <<build, bufVars, call, cpuVars, tcc_running,
                   complete_isr_ran, error_isr_ran, sensorVars>>

\* The SERCOM data register is empty: the DMA moves the next byte of the
\* buffer into it and the SPI shifts it out.
SpiBeat ==
    /\ build = "spi"
    /\ dma_busy
    /\ LET after == dma_after_beat(dma_idx, NEOPIXEL_BUFFER_SIZE)
       IN  /\ line' = Append(line, neopixel_buffer[dma_idx])
           /\ dma_idx' = dma_idx + 1
           /\ dma_busy' = after.busy
           /\ dma_event' = IF after.busy THEN dma_event ELSE after.event
    /\ UNCHANGED <<build, bufVars, call, cpuVars, tcc_running, tcc_cc,
                   tcc_ccbuf, tcc_ccbufv, complete_isr_ran, error_isr_ran,
                   sensorVars>>

\* The transfer engine faults in the middle of a transfer: the channel
\* stops and raises DMAC_TRANSFER_EVENT_ERROR instead of COMPLETE.
DmaError ==
    /\ dma_busy
    /\ dma_busy' = FALSE
    /\ dma_event' = "ERROR"
    /\ UNCHANGED <<build, bufVars, call, cpuVars, dma_idx, tcc_running,
                   tcc_cc, tcc_ccbuf, tcc_ccbufv, line, complete_isr_ran,
                   error_isr_ran, sensorVars>>

(***************************************************************************)
(* The driver as the program runs it                                       *)
(***************************************************************************)
\* arguments of the setColor calls made between two sends
SendLedInputs == 0 .. NUM_LEDS

SendColorInputs == { <<255, 0, 0>>, <<0, 255, 0>> }

CpuStep ==
    \/ Step_tcc_preload
    \/ Step_tcc_clear_flag
    \/ Step_tcc_arm
    \/ Step_tcc_start
    \/ Step_tcc_wait
    \/ Step_tcc_stop
    \/ Step_tcc_delay
    \/ Step_spi_clear_flag
    \/ Step_spi_arm
    \/ Step_spi_wait
    \/ Step_spi_delay

Init ==
    /\ build \in {"spi", "tcc"}
    /\ InitBuffers
    /\ call = NoCall
    /\ InitDriver("boot")
    /\ InitSensorStatics
    /\ pin = FALSE

Next ==
    \/ Call_neopixel_init
    \/ \E i \in SendLedInputs, c \in SendColorInputs : Call_set_led_color(i, c)
    \/ Call_clear_all_leds
    \/ \E i \in SendLedInputs, c \in SendColorInputs : Call_set_led_color_tcc(i, c)
    \/ Call_neopixel_send_tcc
    \/ Call_neopixel_send_data
    \/ CpuStep
    \/ TccOverflow
    \/ SpiBeat
    \/ DmaError
    \/ DmaIsr

\* main(): neopixel_init, then setColor / clear / send from the main loop,
\* with the DMA engine, the timer and the DMAC interrupt running beside it.
Spec == Init /\ [][Next]_vars

\* The same, with the scheduling the hardware guarantees: the CPU keeps
\* executing, a pending interrupt is taken, a running timer overflows and
\* an armed channel with its trigger raised moves its beat. A fault of the
\* transfer engine may or may not occur.
FairSpec ==
    /\ Spec
    /\ WF_vars(CpuStep)
    /\ WF_vars(DmaIsr)
    /\ WF_vars(TccOverflow)
    /\ WF_vars(SpiBeat)

(***************************************************************************)
(* A second caller of send, from an interrupting context                   *)
(***************************************************************************)
InSend == pc \in {"tcc_wait", "spi_wait"}

\* neopixel_send_tcc() / neopixel_send_data() is entered from a handler
\* that interrupts the main loop in the wait loop of its own send, where
\* a send spends its time: neither function tests any state at entry, the
\* call runs on top of the interrupted one.
Interrupt_send ==
    /\ Len(stack) < MaxDepth
    /\ InSend
    /\ stack' = Append(stack, Frame(IF build = "tcc" THEN "tcc_preload"
                                    ELSE "spi_clear_flag"))
    /\ line' = <<>>
    /\ UNCHANGED <<build, bufVars, call, dma_complete, neopixel_dma_complete,
                   dma_callback, dma_busy, dma_idx, dma_event, tcc_running,
                   tcc_cc, tcc_ccbuf, tcc_ccbufv, complete_isr_ran,
                   error_isr_ran, sensorVars>>

NextNested ==
    \/ Call_neopixel_init
    \/ Call_neopixel_send_tcc
    \/ Call_neopixel_send_data
    \/ CpuStep
    \/ TccOverflow
    \/ SpiBeat
    \/ DmaError
    \/ DmaIsr
    \/ Interrupt_send

\* The sends of the never-written (all zero) buffers, with a second caller
\* that may interrupt a send with a send of its own.
SpecNested == Init /\ [][NextNested]_vars

InitFrame ==
    /\ build \in {"spi", "tcc"}
    /\ InitBuffers
    /\ call = NoCall
    /\ InitDriver("idle")
    /\ InitSensorStatics
    /\ pin = FALSE

NextFrame ==
    \/ \E i \in LedIndexInputs, c \in ColorInputs : Call_set_led_color(i, c)
    \/ Call_clear_all_leds
    \/ \E i \in LedIndexInputs, c \in ColorInputs : Call_set_led_color_tcc(i, c)

\* The frame buffer under arbitrary sequences of setColor / clear calls.
SpecFrame == InitFrame /\ [][NextFrame]_vars

\* set_led_color and set_led_color_tcc called with the same arguments, each
\* on its own buffer
Call_both_encoders(i, c) ==
    /\ AtIdle
    /\ neopixel_buffer' = set_led_color(neopixel_buffer, i, c[1], c[2], c[3])
    /\ neopixel_tcc_buffer' =
           set_led_color_tcc(neopixel_tcc_buffer, i, c[1], c[2], c[3])
    /\ call' = Called("set_led_color, set_led_color_tcc", i, c[1], c[2], c[3])
    /\ UNCHANGED <<build, cpuVars, hwVars, sensorVars>>

NextBoth == \E i \in LedIndexInputs, c \in ColorInputs : Call_both_encoders(i, c)

\* The two encoders side by side under the same sequence of setColor calls.
SpecBoth == InitFrame /\ [][NextBoth]_vars

\* every value of the uint8_t led_index argument
AllLedIndices == 0 .. 255

\* the (red, green, blue) triple passed together with every index (black
\* is written by clear_all_leds)
IndexColorInputs == { <<128, 127, 254>> }

NextIndex ==
    \/ \E i \in AllLedIndices, c \in IndexColorInputs : Call_set_led_color(i, c)
    \/ Call_clear_all_leds
    \/ \E i \in AllLedIndices, c \in IndexColorInputs : Call_set_led_color_tcc(i, c)

\* setColor / clear called with every value the index argument can take.
SpecIndex == InitFrame /\ [][NextIndex]_vars

(***************************************************************************)
(* Claims about send (Spec, FairSpec, SpecNested)                          *)
(***************************************************************************)
SendOps == {"neopixel_send_data", "neopixel_send_tcc"}

SendReturned == call.op \in SendOps /\ AtIdle

TransferLength ==
    IF build = "tcc" THEN NEOPIXEL_TCC_BUFFER_SIZE ELSE NEOPIXEL_BUFFER_SIZE

\* the buffer handed to the DMA engine, as the stream of symbols it holds
BufferAsLine ==
    [k \in 1 .. TransferLength |->
        IF build = "tcc" THEN neopixel_tcc_buffer[k - 1]
        ELSE neopixel_buffer[k - 1]]

\* C1: when a send called from the main loop has returned, the completion
\* interrupt of the transfer that this call armed has run and set the flag,
\* the transfer is no longer in flight (the channel has moved every beat),
\* and the reset-gap delay after the wait loop has been served.
C1_SendReturnsAfterCompletionAndGap ==
    SendReturned =>
        /\ complete_isr_ran
        /\ ~dma_busy
        /\ dma_idx = TransferLength
        /\ Top.cleared /\ Top.armed /\ Top.gap

C1_Witness ==
    /\ SendReturned
    /\ complete_isr_ran
    /\ Top.gap
    /\ Len(line) >= TransferLength

\* C2: if the transfer engine delivers an error event instead of a
\* completion event during a transfer, send still leaves its wait, serves
\* the reset gap and returns to the caller.
C2_ErrorEventStillReturns ==
    error_isr_ran ~> AtIdle

C4_LineCarriesExactlyTheBuffer ==
    SendReturned => line = BufferAsLine

(***************************************************************************)
(* Claims about the encoders and the frame buffer (SpecFrame)              *)
(***************************************************************************)
\* The decoder of the LED protocol: a symbol is a 1 bit when it is the ONE
\* constant, a 0 bit when it is the ZERO constant (anything else poisons
\* the value); 8 bits per channel, most significant bit first.
SymbolBit(s, one, zero) == IF s = one THEN 1 ELSE IF s = zero THEN 0 ELSE 1000

RECURSIVE DecodeChannel(_, _, _, _, _, _)
DecodeChannel(buf, off, k, acc, one, zero) ==
    IF k = 8 THEN acc
    ELSE DecodeChannel(buf, off, k + 1,
                       2 * acc + SymbolBit(buf[off + k], one, zero), one, zero)

\* <<red, green, blue>> read back from the 24 symbols at off, sent G, R, B.
DecodeLed(buf, off, one, zero) ==
    << DecodeChannel(buf, off + 8, 0, 0, one, zero),
       DecodeChannel(buf, off, 0, 0, one, zero),
       DecodeChannel(buf, off + 16, 0, 0, one, zero) >>

CallColor == <<call.red, call.green, call.blue>>

\* C5: decoding the 24 symbols written by setColor(i, r, g, b) for a valid
\* index i (ONE -> 1, ZERO -> 0, regrouped G, R, B, MSB first) yields
\* exactly (r, g, b), for the SPI and for the TCC encoder.
C5_DecodeEncodeRoundTrip ==
    /\ (call.op = "set_led_color" /\ call.led_index < NUM_LEDS) =>
           DecodeLed(neopixel_buffer, 24 * call.led_index, ONE_LED, ZERO_LED)
               = CallColor
    /\ (call.op = "set_led_color_tcc" /\ call.led_index < NUM_LEDS) =>
           DecodeLed(neopixel_tcc_buffer, 24 * call.led_index,
                     TCC_ONE_BIT, TCC_ZERO_BIT) = CallColor

C5_Witness ==
    /\ call.op = "set_led_color"
    /\ call.led_index = 1
    /\ CallColor = <<165, 90, 1>>
    /\ DecodeLed(neopixel_buffer, 24, ONE_LED, ZERO_LED) = <<165, 90, 1>>

\* C6: setColor(i, r, g, b) with i outside [0, N) leaves the whole frame
\* buffer (padding included) identical to its contents before the call.
C6_OutOfRangeIndexIgnored ==
    [][ ( /\ call'.op \in {"set_led_color", "set_led_color_tcc"}
          /\ call'.led_index >= NUM_LEDS )
        => ( /\ neopixel_buffer' = neopixel_buffer
             /\ neopixel_tcc_buffer' = neopixel_tcc_buffer ) ]_vars

C6_Witness ==
    /\ call.op = "set_led_color"
    /\ call.led_index = NUM_LEDS
    /\ CallColor = <<255, 0, 0>>
    /\ DecodeLed(neopixel_buffer, 0, ONE_LED, ZERO_LED) = <<0, 0, 255>>
    /\ \A p \in 24 * NUM_LEDS .. NEOPIXEL_BUFFER_SIZE - 1 : neopixel_buffer[p] = 0

C8_DebounceTiming ==
    ( /\ query.op = "dsun_object_detected"
      /\ pin
      /\ rising_from_no_object )
    => (query.ret <=> raw_stable_ms >= DSUN_DEBOUNCE_MS)

\* C9: justDetected() returns true only on the poll at which the
\* transition NoObject -> ObjectDetected is accepted (and on that poll it
\* does), never on a later poll.
C9_RisingEdgeOneShot ==
    query.op = "dsun_object_just_detected" =>
        ( query.ret <=>
            ( /\ query.changed
              /\ previous_state = "DSUN_NO_OBJECT"
              /\ current_state = "DSUN_OBJECT_DETECTED" ) )

\* C10: justLost() returns true only on the poll at which the debounced
\* state changes from ObjectDetected to NoObject.
C10_FallingEdgeOnlyOnTransition ==
    (query.op = "dsun_object_just_lost" /\ query.ret) =>
        ( /\ query.changed
          /\ previous_state = "DSUN_OBJECT_DETECTED"
          /\ current_state = "DSUN_NO_OBJECT" )

\* C11: the debounced state is Unknown only until the first poll after
\* sensorInit(): once dsun_sensor_init (which makes that first poll) has
\* run, the state is NoObject or ObjectDetected, and it stays so.
C11_KnownAfterFirstPoll ==
    sensor_initialized => current_state # "DSUN_STATE_UNKNOWN"

\* C12: a poll changes the debounced state only if at least
\* DSUN_DEBOUNCE_MS have elapsed, on the clock the debouncer reads, since
\* the last accepted transition (since time 0 for the first one): two
\* consecutive accepted transitions are at least DSUN_DEBOUNCE_MS apart.
C12_AcceptedTransitionsApart ==
    [][ current_state' # current_state =>
            accept_age_at_poll([time_counter |-> time_counter'],
                               time_counter, accept_age)
                >= DSUN_DEBOUNCE_MS ]_vars

C12_Witness ==
    /\ query.changed
    /\ previous_state = "DSUN_NO_OBJECT"
    /\ current_state = "DSUN_OBJECT_DETECTED"
    /\ accept_age = 0
    /\ get_system_time_ms(time_counter) >= 2 * DSUN_DEBOUNCE_MS

\* C13: after init(), whatever setColor calls preceded it, every element
\* of the frame buffer is zero.
C13_InitZeroesBuffer ==
    call.op = "neopixel_init" =>
        /\ \A p \in 0 .. NEOPIXEL_BUFFER_SIZE - 1 : neopixel_buffer[p] = 0
        /\ \A p \in 0 .. NEOPIXEL_TCC_BUFFER_SIZE - 1 : neopixel_tcc_buffer[p] = 0

\* C13 (amended): init() registers the completion callback of the build
\* and leaves the frame buffer as it was, whatever setColor calls preceded.
C13_InitRegistersCallbackOnly ==
    [][ call'.op = "neopixel_init" =>
            /\ dma_callback' \in {"DMA_0_Callback", "NeoPixel_DMA_Callback"}
            /\ dma_callback' = registered_callback(build)
            /\ neopixel_buffer' = neopixel_buffer
            /\ neopixel_tcc_buffer' = neopixel_tcc_buffer ]_vars

C13_Witness ==
    /\ call.op = "neopixel_init"
    /\ build = "tcc"
    /\ dma_callback = "NeoPixel_DMA_Callback"
    /\ neopixel_tcc_buffer[8] = TCC_ONE_BIT

\* C14: at most one transfer is in flight: when a send is entered, and when
\* it arms the DMA engine, no earlier transfer is still moving, no event
\* of an earlier transfer is pending, the clock generator is stopped, and
\* an earlier send, if any, has served its reset gap.
C14_OneTransferInFlight ==
    [][ /\ (AtIdle /\ ~AtIdle') =>
               /\ ~dma_busy /\ dma_event = "none" /\ ~tcc_running
               /\ Top.armed => Top.gap
        /\ (Len(stack') = Len(stack) /\ ~Top.armed /\ Top'.armed) =>
               /\ ~dma_busy /\ dma_event = "none" /\ ~tcc_running
               /\ Len(stack) = 1 ]_vars

C14_Witness ==
    /\ build = "tcc"
    /\ pc = "tcc_start"
    /\ Top.armed /\ dma_busy /\ dma_idx = 0
    /\ tcc_ccbuf = TCC_ZERO_BIT
    /\ line = <<>>

\* C15: while a transfer is in flight (from the arming of the DMA engine
\* until send returns, and as long as the channel still moves beats) no
\* step writes to the frame buffer.
C15_BufferStableDuringTransfer ==
    [][ (dma_busy \/ (Top.armed /\ ~AtIdle)) =>
            /\ neopixel_buffer' = neopixel_buffer
            /\ neopixel_tcc_buffer' = neopixel_tcc_buffer ]_vars

C15_Witness ==
    /\ build = "spi"
    /\ pc = "spi_wait"
    /\ dma_busy /\ dma_idx = 10
    /\ neopixel_buffer[8] = ONE_LED
    /\ line = [k \in 1 .. 10 |-> neopixel_buffer[k - 1]]

\* C16: the frame buffer has length N*24 + padding and the padding leads:
\* after any sequence of setColor and clear calls the first
\* NEOPIXEL_LEADING_ZEROS symbols are still zero, and the 24 symbols of
\* LED i are those at padding + 24*i .. padding + 24*i + 23.
C16_LeadingPaddingLayout ==
    /\ DOMAIN neopixel_buffer =
           0 .. (24 * NUM_LEDS + NEOPIXEL_LEADING_ZEROS) - 1
    /\ \A p \in 0 .. NEOPIXEL_LEADING_ZEROS - 1 : neopixel_buffer[p] = 0
    /\ (call.op = "set_led_color" /\ call.led_index < NUM_LEDS) =>
           DecodeLed(neopixel_buffer,
                     NEOPIXEL_LEADING_ZEROS + 24 * call.led_index,
                     ONE_LED, ZERO_LED) = CallColor

\* bit 7 - (k mod 8) of the channel that symbol k of an LED carries:
\* green for k in 0..7, red for 8..15, blue for 16..23
TransmittedBit(color, k) ==
    LET value == IF k < 8 THEN color[2]
                 ELSE IF k < 16 THEN color[1] ELSE color[3]
    IN  (value \div (2 ^ (7 - (k % 8)))) % 2

\* C17: for a valid index i, setColor(i, r, g, b) leaves at symbols 0..7
\* of LED i green bit 7 down to bit 0, at 8..15 red bit 7 down to 0, at
\* 16..23 blue bit 7 down to 0, each the ONE constant when the bit is set
\* and the ZERO constant otherwise, in the SPI and in the TCC variant.
C17_SymbolsInTransmissionOrder ==
    /\ (call.op = "set_led_color" /\ call.led_index < NUM_LEDS) =>
           \A k \in 0 .. 23 :
               neopixel_buffer[24 * call.led_index + k] =
                   IF TransmittedBit(CallColor, k) = 1
                   THEN ONE_LED ELSE ZERO_LED
    /\ (call.op = "set_led_color_tcc" /\ call.led_index < NUM_LEDS) =>
           \A k \in 0 .. 23 :
               neopixel_tcc_buffer[24 * call.led_index + k] =
                   IF TransmittedBit(CallColor, k) = 1
                   THEN TCC_ONE_BIT ELSE TCC_ZERO_BIT

C17_Witness ==
    /\ call.op = "set_led_color_tcc"
    /\ call.led_index = 1
    /\ CallColor = <<128, 127, 254>>
    /\ neopixel_tcc_buffer[24] = TCC_ZERO_BIT
    /\ neopixel_tcc_buffer[25] = TCC_ONE_BIT
    /\ neopixel_tcc_buffer[32] = TCC_ONE_BIT
    /\ neopixel_tcc_buffer[33] = TCC_ZERO_BIT
    /\ neopixel_tcc_buffer[46] = TCC_ONE_BIT
    /\ neopixel_tcc_buffer[47] = TCC_ZERO_BIT

C20_SettlesToConstantInput ==
    (sensor_initialized /\ stable_polls >= SettlePolls) =>
        current_state = new_state_of(pin)

C20_Witness ==
    /\ sensor_initialized
    /\ stable_polls = SettlePolls
    /\ pin
    /\ previous_state = "DSUN_NO_OBJECT"
    /\ current_state = "DSUN_OBJECT_DETECTED"

\* a step in which the DMAC interrupt calls the registered callback
IsrStep == dma_event # "none" /\ dma_event' = "none" /\ stack' = stack

C21_PollBeforeInitIsInert ==
    [][ (~sensor_initialized /\ ~sensor_initialized' /\ query'.op # "none") =>
            /\ UNCHANGED <<current_state, previous_state, last_change_time,
                           time_counter>>
            /\ PollNow.ret = "DSUN_STATE_UNKNOWN"
            /\ ~query'.changed
            /\ query'.op \in {"dsun_object_detected",
                              "dsun_object_just_detected",
                              "dsun_object_just_lost"} => ~query'.ret
            /\ \A raw \in BOOLEAN :
                   dsun_get_state(current_state, previous_state,
                                  last_change_time, sensor_initialized,
                                  time_counter, raw) = PollNow ]_vars

C21_Witness ==
    /\ ~sensor_initialized
    /\ query.op = "dsun_object_just_detected"
    /\ ~query.ret
    /\ pin
    /\ raw_stable_ms = DSUN_DEBOUNCE_MS
    /\ current_state = "DSUN_STATE_UNKNOWN"
    /\ time_counter = 0

\* the statements of neopixel_send_tcc in program order: the position of
\* the statement that pc is about to execute
TccStatement(label) ==
    CASE label = "tcc_preload" -> 1
      [] label = "tcc_clear_flag" -> 2
      [] label = "tcc_arm" -> 3
      [] label = "tcc_start" -> 4
      [] label = "tcc_wait" -> 5
      [] label = "tcc_stop" -> 6
      [] label = "tcc_delay" -> 7
      [] OTHER -> 0

\* C22: within one neopixel_send_tcc the steps occur in this order, each
\* once: flag cleared, DMA armed, clock started, completion observed,
\* clock stopped, reset gap served, return. The clock runs only after the
\* arming and is stopped only after the completion of this transfer was
\* observed.
C22_SendStepsInOrder ==
    [][ (build = "tcc" /\ Len(stack) = 1 /\ Len(stack') = 1) =>
          LET n == TccStatement(pc')
          IN  /\ (pc' # pc /\ TccStatement(pc) > 0) =>
                     \/ n = TccStatement(pc) + 1
                     \/ (pc = "tcc_delay" /\ pc' = "idle")
              /\ n > 0 =>
                     /\ Top'.cleared <=> n >= 3
                     /\ Top'.armed <=> n >= 4
                     /\ tcc_running' <=> n \in {5, 6}
                     /\ n >= 6 => (complete_isr_ran' /\ neopixel_dma_complete')
                     /\ ~Top'.gap
              /\ (pc = "tcc_delay" /\ pc' = "idle") =>
                     /\ Top'.cleared /\ Top'.armed /\ Top'.gap
                     /\ ~tcc_running' /\ complete_isr_ran' ]_vars

C22_Witness ==
    /\ build = "tcc"
    /\ pc = "tcc_delay"
    /\ Top.cleared /\ Top.armed /\ ~Top.gap
    /\ ~tcc_running
    /\ complete_isr_ran /\ neopixel_dma_complete
    /\ dma_idx = NEOPIXEL_TCC_BUFFER_SIZE

\* C23: send does not stop the clock generator or return until the last
\* symbol of the buffer has been output: once the wait has ended, no
\* symbol is still waiting in the channel's buffered data register, and
\* the last full symbol period on the line carried the buffer's final
\* symbol.
C23_LastSymbolOutBeforeStop ==
    (pc = "tcc_delay" \/ SendReturned) =>
        /\ ~tcc_ccbufv
        /\ Len(line) > 0
        /\ line[Len(line)] = BufferAsLine[TransferLength]

BeforeArm == {"tcc_preload", "tcc_clear_flag", "tcc_arm",
              "spi_clear_flag", "spi_arm"}

\* C25 as stated: every send has a priming phase, so by the time the DMA is
\* armed the send has already served a fixed delay (the settle time with the
\* line held low). The only delay statement of a send is recorded in the
\* frame's gap field.
C25_SettleServedBeforeArm ==
    (pc \in {"tcc_start", "tcc_wait", "spi_wait"} /\ Top.armed) => Top.gap

\* C25 as the code has it: a send has no priming phase. Up to the arming of
\* the DMA it has served no delay, the clock generator is off, no transfer is
\* in flight and no symbol has been emitted; the clock generator is started
\* only after the arming.
C25_ArmsWithoutPriming ==
    /\ pc \in BeforeArm =>
           /\ ~Top.armed /\ ~Top.gap
           /\ ~tcc_running /\ ~dma_busy
           /\ line = <<>>
    /\ pc = "tcc_start" =>
           /\ Top.armed /\ ~Top.gap
           /\ ~tcc_running
           /\ line = <<>>

C25_Witness ==
    /\ pc = "tcc_start"
    /\ dma_busy
    /\ line = <<>>
    /\ ~Top.gap

\* A step that is one poll of the initialised debouncer
PollOfInitialised ==
    /\ sensor_initialized
    /\ query'.op \notin {"none", "dsun_sensor_init"}

\* the debouncer's clock as the poll of this step reads it
ClockRead == time_counter' \div CALLS_PER_MS

C27_SameCandidateRefreshesTimestamp ==
    [][ (PollOfInitialised /\ new_state_of(pin) = current_state) =>
            /\ last_change_time' = ClockRead
            /\ UNCHANGED <<current_state, previous_state>>
            /\ ~query'.changed ]_vars

C27_Witness ==
    /\ sensor_initialized
    /\ query.op = "dsun_get_state"
    /\ new_state_of(pin) = current_state
    /\ previous_state = "DSUN_NO_OBJECT"
    /\ last_change_time = time_counter \div CALLS_PER_MS
    /\ accept_age > 0

C29_PreviousIsStateBeforeLastTransition ==
    [][ sensor_initialized' =>
          /\ (sensor_initialized /\ current_state' # current_state) =>
                 previous_state' = current_state
          /\ (sensor_initialized /\ current_state' = current_state) =>
                 previous_state' = previous_state
          /\ \/ /\ previous_state' = "DSUN_STATE_UNKNOWN"
                /\ current_state' = "DSUN_STATE_UNKNOWN"
             \/ previous_state' # current_state'
          /\ ~(/\ previous_state' = "DSUN_NO_OBJECT"
               /\ current_state' = "DSUN_OBJECT_DETECTED"
               /\ previous_state' = "DSUN_OBJECT_DETECTED"
               /\ current_state' = "DSUN_NO_OBJECT") ]_vars

C29_Witness ==
    /\ sensor_initialized
    /\ query.changed
    /\ previous_state = "DSUN_OBJECT_DETECTED"
    /\ current_state = "DSUN_NO_OBJECT"

\* the completion flag the wait loop of this build reads
CompletionFlag == IF build = "spi" THEN dma_complete ELSE neopixel_dma_complete

\* C30: no completion is lost or erased. Send clears the flag before it
\* arms the transfer, a flag set by the completion interrupt of the armed
\* transfer stays set while send waits, and whenever the hardware raises
\* the completion event of the armed transfer, send eventually leaves its
\* wait loop and returns to the caller.
C30_CompletionNeverLost ==
    /\ [](Top.armed => Top.cleared)
    /\ []((pc \in {"tcc_wait", "spi_wait"} /\ complete_isr_ran) => CompletionFlag)
    /\ (dma_event = "COMPLETE") ~> AtIdle

C30_Witness ==
    /\ pc \in {"tcc_wait", "spi_wait"}
    /\ dma_event = "none"
    /\ complete_isr_ran
    /\ CompletionFlag

(***************************************************************************)
(* Claims about the debouncer across the wrap of its counter (SpecWrap)    *)
(***************************************************************************)
\* C31: glitch rejection. Whenever a poll changes the debounced state, every
\* poll since the last poll that read the old value read the new value, and
\* those polls span at least DSUN_DEBOUNCE_MS on the debouncer's clock
\* (more than (DSUN_DEBOUNCE_MS - 1) * CALLS_PER_MS polls); so two polls
\* less than the window apart that both read the value of the state have no
\* change of the state between them.
C31_GlitchRejected ==
    [][ (sensor_initialized /\ current_state' # current_state) =>
            agree_polls + 1 > (DSUN_DEBOUNCE_MS - 1) * CALLS_PER_MS ]_vars

\* the polls made so far and the time of a timestamp, without the wrap, in
\* a behaviour that starts WrapLead polls before the wrap
UnwrappedCounter(counter) ==
    IF counter < WrapStart THEN counter + TimeCounterWrap ELSE counter

UnwrappedTime(time) ==
    IF time < get_system_time_ms(WrapStart)
    THEN time + get_system_time_ms(TimeCounterWrap)
    ELSE time

\* C32: the elapsed-time test never accepts a transition when fewer than
\* DSUN_DEBOUNCE_MS milliseconds (of the debouncer's clock, counted without
\* the wrap) have passed since the last-change timestamp, also when
\* time_counter overflows and current_time restarts from 0.
C32_NoEarlyAcceptAcrossWrap ==
    [][ (sensor_initialized /\ current_state' # current_state) =>
            get_system_time_ms(UnwrappedCounter(time_counter'))
                - UnwrappedTime(last_change_time) >= DSUN_DEBOUNCE_MS ]_vars

(***************************************************************************)
(* Claims about the two encoders side by side (SpecBoth)                   *)
(***************************************************************************)
\* the TCC compare value that stands for the same bit as an SPI byte; 0 is
\* the value of a position no call has written
TccSymbolFor(spi_symbol) ==
    IF spi_symbol = ONE_LED THEN TCC_ONE_BIT
    ELSE IF spi_symbol = ZERO_LED THEN TCC_ZERO_BIT
    ELSE 0

\* C33: after every sequence of setColor calls applied to both encoders,
\* neopixel_buffer and neopixel_tcc_buffer agree position by position over
\* the LED region 0 .. 24 * NUM_LEDS - 1 under ONE_LED <-> TCC_ONE_BIT,
\* ZERO_LED <-> TCC_ZERO_BIT, LED i being at offset 24 * i in both.
C33_EncodersAgree ==
    \A p \in 0 .. SYMBOLS_PER_LED * NUM_LEDS - 1 :
        /\ neopixel_buffer[p] \in {0, ONE_LED, ZERO_LED}
        /\ neopixel_tcc_buffer[p] = TccSymbolFor(neopixel_buffer[p])

C33_Witness ==
    /\ call.led_index = 1
    /\ CallColor = <<165, 90, 1>>
    /\ DecodeLed(neopixel_buffer, 24, ONE_LED, ZERO_LED) = <<165, 90, 1>>
    /\ DecodeLed(neopixel_tcc_buffer, 24, TCC_ONE_BIT, TCC_ZERO_BIT) = <<165, 90, 1>>
    /\ DecodeLed(neopixel_tcc_buffer, 0, TCC_ONE_BIT, TCC_ZERO_BIT) = <<128, 127, 254>>

(***************************************************************************)
(* Claims about the index argument (SpecIndex)                             *)
(***************************************************************************)
\* the memory every offset led_index * 24 + 0 .. 23 of a uint8_t led_index
\* can address, each position marked as not written
BlankMemory == [p \in 0 .. 255 * 24 + 23 |-> -1]

\* the positions the last call writes, found by running it on BlankMemory
LastCallWrites ==
    CASE call.op = "set_led_color" ->
             set_led_color(BlankMemory, call.led_index,
                           call.red, call.green, call.blue)
      [] call.op = "clear_all_leds" -> clear_all_leds(BlankMemory)
      [] call.op = "set_led_color_tcc" ->
             set_led_color_tcc(BlankMemory, call.led_index,
                               call.red, call.green, call.blue)
      [] OTHER -> BlankMemory

\* C34: for every value 0..255 of the index and every colour, setColor and
\* clear write only to positions inside the frame buffer of their variant
\* (below NEOPIXEL_BUFFER_SIZE, below 24 * NUM_LEDS for the TCC buffer), and
\* what they write there is what the buffer holds after the call; the
\* 16-bit offset never wraps.
C34_WritesStayInsideBuffer ==
    /\ \A i \in AllLedIndices : i * 24 + 23 < 65536
    /\ \A p \in DOMAIN BlankMemory :
           LastCallWrites[p] # -1 =>
               IF call.op = "set_led_color_tcc"
               THEN /\ p < NEOPIXEL_TCC_BUFFER_SIZE
                    /\ neopixel_tcc_buffer[p] = LastCallWrites[p]
               ELSE /\ p < NEOPIXEL_BUFFER_SIZE
                    /\ neopixel_buffer[p] = LastCallWrites[p]

C34_Witness ==
    /\ call.op = "set_led_color_tcc"
    /\ call.led_index = NUM_LEDS - 1
    /\ CallColor = <<128, 127, 254>>
    /\ neopixel_tcc_buffer[NEOPIXEL_TCC_BUFFER_SIZE - 1] = TCC_ZERO_BIT
    /\ LastCallWrites[NEOPIXEL_TCC_BUFFER_SIZE - 1] = TCC_ZERO_BIT
    /\ LastCallWrites[NEOPIXEL_TCC_BUFFER_SIZE] = -1

(***************************************************************************)
(* Claims about send and the frame buffer (Spec)                           *)
(***************************************************************************)
SetColorOps == {"set_led_color", "clear_all_leds", "set_led_color_tcc"}

\* C35: send never modifies the frame buffer and the completion interrupt
\* handler never touches it: the buffer changes only in a step that is a
\* setColor or clear call made between two sends, so it is the same at the
\* return of send as at its call; and what the SPI send has put on the
\* line is, symbol by symbol, the buffer it was called with, so that two
\* sends with no setColor or clear between them transmit the same frame.
C35_SendLeavesBufferAlone ==
    /\ [][ (bufVars' # bufVars) =>
              /\ pc = "idle" /\ pc' = "idle"
              /\ call'.op \in SetColorOps
              /\ ~IsrStep ]_vars
    /\ []((build = "spi" /\ (pc # "idle" \/ SendReturned)) =>
              /\ Len(line) <= NEOPIXEL_BUFFER_SIZE
              /\ \A k \in 1 .. Len(line) : line[k] = neopixel_buffer[k - 1])

C35_Witness ==
    /\ build = "spi"
    /\ SendReturned
    /\ Len(line) = NEOPIXEL_BUFFER_SIZE
    /\ DecodeLed(neopixel_buffer, 0, ONE_LED, ZERO_LED) = <<255, 0, 0>>
    /\ DecodeLed(neopixel_buffer, 24, ONE_LED, ZERO_LED) = <<0, 255, 0>>

(***************************************************************************)
(* Algebra of setColor (SpecFrame)                                         *)
(***************************************************************************)
\* set_led_color / set_led_color_tcc with the colour as one triple
SpiSet(buf, i, c) == set_led_color(buf, i, c[1], c[2], c[3])

TccSet(buf, i, c) == set_led_color_tcc(buf, i, c[1], c[2], c[3])

\* C36: setColor is idempotent, last-write-wins and commutes across LEDs.
\* For the call setColor(i, c) of a step, from buffer b to buffer b':
\* calling it again leaves b'; setColor(i, c2) after it leaves what
\* setColor(i, c2) alone leaves from b; and for j # i, setColor(j, c2)
\* after it leaves what setColor(j, c2) followed by setColor(i, c) leaves
\* from b. In the SPI and in the TCC variant.
C36_SetColorAlgebra ==
    [][ /\ call'.op = "set_led_color" =>
              LET i == call'.led_index
                  c == <<call'.red, call'.green, call'.blue>>
                  b == neopixel_buffer
                  b2 == neopixel_buffer'
              IN  /\ SpiSet(b2, i, c) = b2
                  /\ \A c2 \in ColorInputs : SpiSet(b2, i, c2) = SpiSet(b, i, c2)
                  /\ \A j \in LedIndexInputs \ {i}, c2 \in ColorInputs :
                         SpiSet(b2, j, c2) = SpiSet(SpiSet(b, j, c2), i, c)
        /\ call'.op = "set_led_color_tcc" =>
              LET i == call'.led_index
                  c == <<call'.red, call'.green, call'.blue>>
                  b == neopixel_tcc_buffer
                  b2 == neopixel_tcc_buffer'
              IN  /\ TccSet(b2, i, c) = b2
                  /\ \A c2 \in ColorInputs : TccSet(b2, i, c2) = TccSet(b, i, c2)
                  /\ \A j \in LedIndexInputs \ {i}, c2 \in ColorInputs :
                         TccSet(b2, j, c2) = TccSet(TccSet(b, j, c2), i, c) ]_vars

C36_Witness ==
    /\ call.op = "set_led_color"
    /\ call.led_index = 0
    /\ CallColor = <<0, 0, 255>>
    /\ DecodeLed(neopixel_buffer, 0, ONE_LED, ZERO_LED) = <<0, 0, 255>>
    /\ DecodeLed(neopixel_buffer, 24, ONE_LED, ZERO_LED) = <<165, 90, 1>>

=============================================================================
